---- MODULE Spec2Model ----
(***************************************************************************)
(* A model of diagram.py: a straight-line script that evaluates the        *)
(* objective 1.5*x + y at five literal points in IEEE-754 binary64         *)
(* arithmetic, converts each value with str(), issues a fixed sequence of  *)
(* pylab drawing primitives and saves the figure to polygon_diagram.png.   *)
(*                                                                         *)
(* Numbers.  A Python float is modelled exactly: the record                *)
(* [sign, man, exp] denotes sign * man * 2^exp, where man is an unbounded  *)
(* natural number written as a little-endian sequence of limbs (TLC's      *)
(* integers are 32 bits wide, a double's significand is 53).  Every        *)
(* arithmetic operation computes the exact result and rounds it to 53      *)
(* significant bits, ties to even.  All values of the script lie between   *)
(* 2^-5 and 2^3, so the exponent range (overflow, subnormals) is not       *)
(* modelled.                                                               *)
(***************************************************************************)
EXTENDS Integers, Sequences, FiniteSets, TLC

(***************************************************************************)
(* Unbounded naturals: little-endian sequences of limbs in 0..Base-1,      *)
(* without leading zero limbs; <<>> is zero.  Base is small enough that    *)
(* every intermediate product stays below 2^31.                            *)
(***************************************************************************)
Base == 2 ^ 14

LimbBits == CHOOSE w \in 1..30 : 2 ^ w = Base

\* b.  TLC computes an operator's argument where the operator first uses
\* it and the components of a tuple from left to right, so After(a, b) has
\* a computed before b is looked at: this changes no value, it keeps the
\* nesting of TLC's evaluation shallow.
After(a, b) == <<a, b>>[2]

Max(S) == CHOOSE x \in S : \A y \in S : y <= x

Min(S) == CHOOSE x \in S : \A y \in S : x <= y

Limb(a, i) == IF i >= 1 /\ i <= Len(a) THEN a[i] ELSE 0

Trim(a) ==
    LET nz == {i \in 1..Len(a) : a[i] # 0}
    IN  IF nz = {} THEN <<>> ELSE SubSeq(a, 1, Max(nz))

\* a natural number below 2^31 as a bignum
BigOfInt(n) == Trim(<<n % Base, (n \div Base) % Base, n \div (Base * Base)>>)

\* a with zero limbs added up to length n
Pad(a, n) == a \o [i \in 1..(n - Len(a)) |-> 0]

\* the carry into limb i of a + b: some lower limb overflows and every limb
\* between passes the carry on
CarryIn(a, b, i) ==
    \E j \in 1..(i - 1) :
        a[j] + b[j] >= Base /\ \A k \in (j + 1)..(i - 1) : a[k] + b[k] = Base - 1

BAdd(a, b) ==
    IF a = <<>> THEN b
    ELSE IF b = <<>> THEN a
    ELSE LET n  == 1 + (IF Len(a) > Len(b) THEN Len(a) ELSE Len(b))
             pa == Pad(a, n)
             pb == Pad(b, n)
         IN  Trim([i \in 1..n |->
                      (pa[i] + pb[i] + (IF CarryIn(pa, pb, i) THEN 1 ELSE 0)) % Base])

\* the borrow from limb i of a - b: some lower limb falls short and every
\* limb between passes the borrow on
BorrowIn(a, b, i) ==
    \E j \in 1..(i - 1) :
        a[j] < b[j] /\ \A k \in (j + 1)..(i - 1) : a[k] = b[k]

\* a - b for a >= b
BSub(a, b) ==
    IF b = <<>> THEN a
    ELSE IF a = b THEN <<>>
    ELSE LET pb == Pad(b, Len(a))
         IN  Trim([i \in 1..Len(a) |->
                      (a[i] - pb[i] - (IF BorrowIn(a, pb, i) THEN 1 ELSE 0)) % Base])

\* -1, 0, 1 as a < b, a = b, a > b
BCmp(a, b) ==
    IF Len(a) > Len(b) THEN 1
    ELSE IF Len(a) < Len(b) THEN -1
    ELSE LET df == {i \in 1..Len(a) : a[i] # b[i]}
         IN  IF df = {} THEN 0
             ELSE IF a[Max(df)] > b[Max(df)] THEN 1 ELSE -1

\* the number of bits of a; bit i of a, bit 1 the lowest
BitLen(a) ==
    IF a = <<>> THEN 0
    ELSE (LimbBits * (Len(a) - 1))
         + (CHOOSE k \in 1..LimbBits :
               2 ^ (k - 1) <= a[Len(a)] /\ a[Len(a)] < 2 ^ k)

Bit(a, i) ==
    (Limb(a, ((i - 1) \div LimbBits) + 1) \div (2 ^ ((i - 1) % LimbBits))) % 2

\* a * 2^k and a \div 2^k
BShl(a, k) ==
    IF a = <<>> \/ k = 0 THEN a
    ELSE
    LET q == k \div LimbBits
        r == k % LimbBits
    IN  Trim([i \in 1..(Len(a) + q + 1) |->
                 ((Limb(a, i - q) * (2 ^ r)) % Base)
                 + (Limb(a, i - q - 1) \div (2 ^ (LimbBits - r)))])

BShr(a, k) ==
    IF a = <<>> \/ k = 0 THEN a
    ELSE
    LET q == k \div LimbBits
        r == k % LimbBits
    IN  Trim([i \in 1..(Len(a) - q) |->
                 (Limb(a, i + q) \div (2 ^ r))
                 + ((Limb(a, i + q + 1) * (2 ^ (LimbBits - r))) % Base)])

\* whether any of the k low bits of a is set
LowBits(a, k) == \E i \in 1..k : Bit(a, i) = 1

\* column k of the schoolbook product a * b, b of at most four limbs: a
\* sum of four products of limbs, below 2^30
Column(a, b, k) ==
    (Limb(b, 1) * Limb(a, k)) + (Limb(b, 2) * Limb(a, k - 1))
    + (Limb(b, 3) * Limb(a, k - 2)) + (Limb(b, 4) * Limb(a, k - 3))

\* a * b for b of at most four limbs (56 bits): every column sum is split
\* into three limbs, and the three rows of limbs are added
BMul(a, b) ==
    IF a = <<>> \/ b = <<>> THEN <<>>
    ELSE LET n == Len(a) + 4
             c == [k \in 1..n |-> Column(a, b, k)]
         IN  BAdd(BAdd(Trim([k \in 1..n |-> c[k] % Base]),
                       Trim(<<0>> \o [k \in 1..n |-> (c[k] \div Base) % Base])),
                  Trim(<<0, 0>> \o [k \in 1..n |-> c[k] \div (Base * Base)]))

\* Base^0 .. Base^7 modulo the small integer d, 0 < d <= 10^4
PowMods(d) ==
    LET p1 == Base % d
        p2 == (p1 * p1) % d
        p3 == (p2 * p1) % d
        p4 == (p2 * p2) % d
    IN  <<1, p1, p2, p3, p4, (p4 * p1) % d, (p4 * p2) % d, (p4 * p3) % d>>

\* the number made of limbs i, i+1, ... of a, modulo d, for a of at most
\* eight limbs; pm is PowMods(d).  Every product is below 2^28.
RemFrom(a, i, d, pm) ==
    ((Limb(a, i) * pm[1]) + (Limb(a, i + 1) * pm[2])
     + (Limb(a, i + 2) * pm[3]) + (Limb(a, i + 3) * pm[4])
     + (Limb(a, i + 4) * pm[5]) + (Limb(a, i + 5) * pm[6])
     + (Limb(a, i + 6) * pm[7]) + (Limb(a, i + 7) * pm[8])) % d

\* long division of a by d: limb i of the quotient comes from the
\* remainder left by the limbs above it
DivLimbs(a, d, pm) ==
    <<Trim([i \in 1..Len(a) |-> ((RemFrom(a, i + 1, d, pm) * Base) + a[i]) \div d]),
      RemFrom(a, 1, d, pm)>>

\* <<a \div d, a % d>> for a of at most eight limbs (112 bits) and a small
\* integer d, 0 < d <= 10^4
BDivSmall(a, d) ==
    IF a = <<>> THEN <<(<<>>), 0>> ELSE DivLimbs(a, d, PowMods(d))

\* 10^k as a bignum, 0 <= k <= 9
Pow10Small(k) == BigOfInt(10 ^ k)

\* 10^k as a bignum, 0 <= k <= 36
BPow10(k) ==
    IF k <= 9 THEN Pow10Small(k)
    ELSE IF k <= 18 THEN BMul(Pow10Small(9), Pow10Small(k - 9))
    ELSE IF k <= 27 THEN BMul(BMul(Pow10Small(9), Pow10Small(9)), Pow10Small(k - 18))
    ELSE BMul(BMul(BMul(Pow10Small(9), Pow10Small(9)), Pow10Small(9)),
              Pow10Small(k - 27))

(***************************************************************************)
(* binary64 values and arithmetic.                                         *)
(***************************************************************************)
\* the number of zero bits below the lowest set bit of m # 0
LowZeros(m) == Min({i \in 1..BitLen(m) : Bit(m, i) = 1}) - 1

\* the canonical record of sign * m * 2^e: man odd, or zero
Canon(s, m, e) ==
    IF m = <<>> THEN [sign |-> 1, man |-> <<>>, exp |-> 0]
    ELSE LET z == LowZeros(m)
         IN  [sign |-> s, man |-> BShr(m, z), exp |-> e + z]

\* round sign * m * 2^e to 53 significant bits, ties to even
Round53(s, m, e) ==
    IF BitLen(m) <= 53 THEN Canon(s, m, e)
    ELSE LET k      == BitLen(m) - 53
             q      == BShr(m, k)
             half   == Bit(m, k) = 1
             sticky == LowBits(m, k - 1)
             up     == half /\ (sticky \/ Bit(q, 1) = 1)
         IN  Canon(s, IF up THEN BAdd(q, <<1>>) ELSE q, e + k)

\* a Python int converted to float
FromInt(n) == Canon(IF n < 0 THEN -1 ELSE 1, BigOfInt(IF n < 0 THEN -n ELSE n), 0)

FNeg(a) == IF a.man = <<>> THEN a ELSE [a EXCEPT !.sign = -a.sign]

FMul(a, b) == Round53(a.sign * b.sign, BMul(a.man, b.man), a.exp + b.exp)

FAdd(a, b) ==
    LET e  == IF a.exp < b.exp THEN a.exp ELSE b.exp
        ma == BShl(a.man, a.exp - e)
        mb == BShl(b.man, b.exp - e)
        c  == BCmp(ma, mb)
    IN  IF a.sign = b.sign THEN Round53(a.sign, BAdd(ma, mb), e)
        ELSE IF c = 0 THEN Canon(1, <<>>, 0)
        ELSE IF c > 0 THEN Round53(a.sign, BSub(ma, mb), e)
        ELSE Round53(b.sign, BSub(mb, ma), e)

FSub(a, b) == FAdd(a, FNeg(b))

\* -1, 0, 1 as a < b, a = b, a > b
FCmp(a, b) ==
    LET d == FAdd(a, FNeg(b))
    IN  IF d.man = <<>> THEN 0 ELSE d.sign

\* the double nearest to the quotient q with remainder r of a division
\* whose dividend was scaled by 2^k: a sticky bit below q stands for r
RoundQuotient(qr, k) ==
    After(qr, Round53(1, BAdd(BShl(qr[1], 1), IF qr[2] # 0 THEN <<1>> ELSE <<>>),
                      -k - 1))

\* the double nearest to n / 10^p (n a bignum, 0 <= p <= 4): n is scaled by
\* 2^k so that the quotient has at least 56 bits
ParseScaled(n, p, k) == RoundQuotient(BDivSmall(BShl(n, k), 10 ^ p), k)

ParseRatio(n, p) ==
    IF n = <<>> THEN Canon(1, <<>>, 0)
    ELSE ParseScaled(n, p, IF 57 + (4 * p) > BitLen(n)
                           THEN 57 + (4 * p) - BitLen(n) ELSE 0)

\* the float literal whose digits, read as an integer, are n, with p digits
\* after the decimal point:  Lit(75, 2) is 0.75
Lit(n, p) == ParseRatio(BigOfInt(n), p)

(***************************************************************************)
(* str() of a float.  Text is a sequence of one-character strings.         *)
(* Python 3 (3.2 and later) and Python 2.7 differ: str(x) is repr(x), the  *)
(* shortest decimal string that reads back as x, in Python 3, and the      *)
(* value rounded to 12 significant digits ('%.12g') in Python 2.  The      *)
(* script names no interpreter, so the model carries both.                 *)
(*                                                                         *)
(* The decimal expansion of x = m * 2^e is computed once, exactly, in a    *)
(* frame of FrameLen decimal digits: x is scaled by a power of ten that    *)
(* puts its first significant digit at position 2 or 3 of the frame, so    *)
(* that 17 significant digits, the digit after them and a carry out of the *)
(* first all fit.  The numbers that read back as x form an interval        *)
(* around x, which is expanded in the same frame.  Rounding to n digits    *)
(* and the test whether a rounded value reads back as x then work on       *)
(* digits.  The frame holds x for 10^-19 <= x < 10^16.                     *)
(***************************************************************************)
FrameLen == 20

Reverse(s) == [i \in 1..Len(s) |-> s[Len(s) + 1 - i]]

\* the four decimal digits of v < 10^4, least significant first
Group(v) == <<v % 10, (v \div 10) % 10, (v \div 100) % 10, v \div 1000>>

\* the decimal digits of a < 10^20, most significant first: they are taken
\* off four at a time, least significant first
Digits(a) ==
    LET q1 == BDivSmall(a, 10 ^ 4)
        q2 == BDivSmall(q1[1], 10 ^ 4)
        q3 == BDivSmall(q2[1], 10 ^ 4)
        q4 == BDivSmall(q3[1], 10 ^ 4)
        q5 == BDivSmall(q4[1], 10 ^ 4)
    IN  Reverse(Group(q1[2]) \o Group(q2[2]) \o Group(q3[2]) \o Group(q4[2])
                \o Group(q5[2]))

\* a lower bound of floor(log10(m * 2^e)), at most one below it
Exp10Low(m, e) == ((BitLen(m) + e - 1) * 30103) \div 100000

\* the least integer c with c * 2^W >= a (closed) or c * 2^W > a
LeastAbove(a, W, closed) ==
    BAdd(BShr(a, W), IF closed /\ ~LowBits(a, W) THEN <<>> ELSE <<1>>)

\* the greatest integer c with c * 2^W <= a (closed) or c * 2^W < a
GreatestBelow(a, W, closed) ==
    BSub(BShr(a, W), IF ~closed /\ ~LowBits(a, W) THEN <<1>> ELSE <<>>)

\* The expansion of x = m * 2^e, m odd, scaled by P = 10^(17 - E0).  With M
\* the 53-bit significand of x, x is 4M quarter-ulps of 2^-W each, and the
\* reals that round to x lie between 4M - 2 and 4M + 2 quarter-ulps (from
\* 4M - 1 where x is a power of two), the ends included where M is even.
\*   dig, exact: the digits of floor(x * P), whether x * P is an integer
\*   lo, hi    : the digits of the least and greatest integer c such that
\*               c / P reads back as x
\* m is odd, so M is even unless m has all 53 bits; X is x * P in
\* quarter-ulps, 4M * P
Expand(m, P, X, W, E0) ==
    After(X,
          [dig   |-> Digits(BShr(X, W)),
           exact |-> ~LowBits(X, W),
           lo    |-> Digits(LeastAbove(BSub(X, IF BitLen(m) = 1 THEN P ELSE BShl(P, 1)),
                                       W, BitLen(m) < 53)),
           hi    |-> Digits(GreatestBelow(BAdd(X, BShl(P, 1)), W, BitLen(m) < 53)),
           E0    |-> E0])

ExpandBy(m, P, W, E0) ==
    After(P, Expand(m, P, BMul(P, BShl(m, 55 - BitLen(m))), W, E0))

ExpandAt(m, e, E0) == ExpandBy(m, BPow10(17 - E0), 55 - BitLen(m) - e, E0)

\* the decimal expansion of the float x # 0
Decimal(x) == ExpandAt(x.man, x.exp, Exp10Low(x.man, x.exp))

\* the position of the first non-zero digit of d
FirstDigit(d) == Min({i \in 1..FrameLen : d[i] # 0})

\* d with the digits after position p cleared
Truncate(d, p) == [i \in 1..FrameLen |-> IF i <= p THEN d[i] ELSE 0]

\* d with one added at position p and the digits after p cleared
Increment(d, p) ==
    LET j == Max({i \in 1..p : d[i] # 9})
    IN  [i \in 1..FrameLen |->
            IF i < j THEN d[i] ELSE IF i = j THEN d[i] + 1 ELSE 0]

\* d, followed by a non-zero fraction unless exact, rounded at position p,
\* ties to even
RoundAt(d, exact, p) ==
    LET more == ~exact \/ \E i \in (p + 2)..FrameLen : d[i] # 0
        up   == d[p + 1] > 5 \/ (d[p + 1] = 5 /\ (more \/ d[p] % 2 = 1))
    IN  IF up THEN Increment(d, p) ELSE Truncate(d, p)

\* -1, 0, 1 as the digits a are below, equal to, above the digits b
DigitsCmp(a, b) ==
    LET df == {i \in 1..FrameLen : a[i] # b[i]}
    IN  IF df = {} THEN 0 ELSE IF a[Min(df)] > b[Min(df)] THEN 1 ELSE -1

\* x rounded to n significant digits
Rounded(dec, n) == RoundAt(dec.dig, dec.exact, FirstDigit(dec.dig) + n - 1)

\* whether the digits c read back as x
ReadsBack(c, dec) == DigitsCmp(c, dec.lo) >= 0 /\ DigitsCmp(c, dec.hi) <= 0

\* the least number of significant digits that read back as x; 17 always do
ShortestLen(dec) == Min({n \in 1..17 : ReadsBack(Rounded(dec, n), dec)})

StripZeros(ds) ==
    LET nz == {i \in 1..Len(ds) : ds[i] # 0}
    IN  IF nz = {} THEN <<0>> ELSE SubSeq(ds, 1, Max(nz))

DigitChar(d) == <<"0", "1", "2", "3", "4", "5", "6", "7", "8", "9">>[d + 1]

Chars(ds) == [i \in 1..Len(ds) |-> DigitChar(ds[i])]

Zeros(k) == [i \in 1..k |-> "0"]

\* format_float_short: digits ds, decimal point after the first decpt of
\* them; exponent notation when decpt <= -4 or decpt > maxFixed, and ".0"
\* added to a result that would read as an integer
FormatShort(ds, decpt, maxFixed) ==
    LET n  == Len(ds)
        x  == decpt - 1
        ax == IF x < 0 THEN -x ELSE x
    IN  IF decpt <= -4 \/ decpt > maxFixed
        THEN Chars(<<ds[1]>>)
             \o (IF n > 1 THEN <<".">> \o Chars(SubSeq(ds, 2, n)) ELSE <<>>)
             \o <<"e", IF x < 0 THEN "-" ELSE "+">>
             \o (IF ax >= 100 THEN <<DigitChar(ax \div 100)>> ELSE <<>>)
             \o <<DigitChar((ax \div 10) % 10), DigitChar(ax % 10)>>
        ELSE IF decpt <= 0 THEN <<"0", ".">> \o Zeros(-decpt) \o Chars(ds)
        ELSE IF decpt >= n THEN Chars(ds) \o Zeros(decpt - n) \o <<".", "0">>
        ELSE Chars(SubSeq(ds, 1, decpt)) \o <<".">> \o Chars(SubSeq(ds, decpt + 1, n))

\* the text of the n significant digits c, which start at position s
ShowFrom(c, s, n, E0, maxFixed) ==
    FormatShort(StripZeros(SubSeq(c, s, s + n - 1)), 4 - s + E0, maxFixed)

\* the text of x rounded to n significant digits
Show(dec, n, maxFixed) ==
    After(<<dec, n>>,
          ShowFrom(Rounded(dec, n), FirstDigit(Rounded(dec, n)), n, dec.E0, maxFixed))

SignChars(x) == IF x.sign < 0 THEN <<"-">> ELSE <<>>

ShowShortest(dec) == Show(dec, ShortestLen(dec), 16)

\* float_repr_style 'short': repr(x)
Repr(x) ==
    IF x.man = <<>> THEN <<"0", ".", "0">>
    ELSE SignChars(x) \o ShowShortest(Decimal(x))

\* '%.12g' of x, with ".0" added to a result that would read as an integer
Str12(x) ==
    IF x.man = <<>> THEN <<"0", ".", "0">>
    ELSE SignChars(x) \o Show(Decimal(x), 12, 12)

\* str(x) under Python major version py
Str(py, x) == IF py = 2 THEN Str12(x) ELSE Repr(x)

(***************************************************************************)
(* The plotting primitives the script calls, as functions of the current   *)
(* figure.  Every one of them draws on pylab's implicit current figure.    *)
(***************************************************************************)

\* pylab's current figure before anything is drawn on it
EmptyFigure ==
    [xlim |-> <<FromInt(0), FromInt(1)>>, ylim |-> <<FromInt(0), FromInt(1)>>,
     xlabel |-> "", ylabel |-> "",
     patches |-> <<>>, lines |-> <<>>, texts |-> <<>>, arrows |-> <<>>]

\* the colour a one-letter colour code stands for
ColorName(c) ==
    IF c = "k" THEN "black"
    ELSE IF c = "r" THEN "red"
    ELSE IF c = "y" THEN "yellow"
    ELSE IF c = "g" THEN "green"
    ELSE "blue"

xlim(f, lo, hi) == [f EXCEPT !.xlim = <<lo, hi>>]

\* a ylim that takes its two bounds in the opposite order
ylimSwapped(f, lo, hi) == [f EXCEPT !.ylim = <<hi, lo>>]

ylim(f, lo, hi) == [f EXCEPT !.ylim = <<lo, hi>>]

\* fill(xs, ys): one polygon whose vertices are the pairs (xs[i], ys[i])
fill(f, xs, ys) ==
    [f EXCEPT !.patches = Append(@, [i \in 1..Len(xs) |-> <<xs[i], ys[i]>>])]

xlabel(f, s) == [f EXCEPT !.xlabel = s]

ylabel(f, s) == [f EXCEPT !.ylabel = s]

\* a plot that ignores the colour letter of fmt and draws in black
plotBlack(f, xs, ys, fmt) ==
    [f EXCEPT !.lines = Append(@, [xs |-> xs, ys |-> ys,
                                   color |-> "black",
                                   marker |-> fmt[2]])]

\* plot(xs, ys, fmt): fmt is a colour letter followed by a marker letter
plot(f, xs, ys, fmt) ==
    [f EXCEPT !.lines = Append(@, [xs |-> xs, ys |-> ys,
                                   color |-> ColorName(fmt[1]),
                                   marker |-> fmt[2]])]

\* an annotate that places the text twice
annotateTwice(f, s, xy, c) ==
    [f EXCEPT !.texts = Append(Append(@, [s |-> s, xy |-> xy, color |-> ColorName(c)]),
                               [s |-> s, xy |-> xy, color |-> ColorName(c)])]

\* annotate(s, xy, color=c): the text s placed at xy
annotate(f, s, xy, c) ==
    [f EXCEPT !.texts = Append(@, [s |-> s, xy |-> xy, color |-> ColorName(c)])]

\* an arrow that takes dx for dy and dy for dx
arrowSwapped(f, x, y, dx, dy, ec, fc, lw, hw) ==
    [f EXCEPT !.arrows = Append(@, [x |-> x, y |-> y, dx |-> dy, dy |-> dx,
                                    ec |-> ColorName(ec), fc |-> ColorName(fc),
                                    lw |-> lw, head_width |-> hw])]

\* arrow(x, y, dx, dy, ec=, fc=, lw=, head_width=)
arrow(f, x, y, dx, dy, ec, fc, lw, hw) ==
    [f EXCEPT !.arrows = Append(@, [x |-> x, y |-> y, dx |-> dx, dy |-> dy,
                                    ec |-> ColorName(ec), fc |-> ColorName(fc),
                                    lw |-> lw, head_width |-> hw])]

\* the image savefig writes: a rendering of the figure and of nothing else
Render(f) == [format |-> "png", image |-> f]

\* a savefig that leaves a file alone that is already there
savefigKeep(fs, fname, f) ==
    [n \in (DOMAIN fs) \cup {fname} |->
        IF n \in DOMAIN fs THEN fs[n] ELSE Render(f)]

\* savefig(fname): the file fname holds the rendered figure, whether or not
\* it existed before
savefig(fs, fname, f) ==
    [n \in (DOMAIN fs) \cup {fname} |-> IF n = fname THEN Render(f) ELSE fs[n]]

(***************************************************************************)
(* The script                                                              *)
(***************************************************************************)

\* how many times the script is run, one run after the other
MaxRuns == 2

VARIABLES
    py,         \* major version of the interpreter that runs the script
    argv,       \* command-line arguments of the invocation
    environ,    \* the process environment
    writable,   \* whether the working directory can be written to
    fsys,       \* the files of the working directory
    run,        \* number of runs started
    pc,         \* line of the statement to execute next; 0 when no run is active
    fig,        \* pylab's current figure
    log,        \* the calls this run has made, in order
    history     \* for every finished run its calls, files and exit code

vars == <<py, argv, environ, writable, fsys, run, pc, fig, log, history>>

OutFile == "polygon_diagram.png"

NoFiles == [n \in {} |-> Render(EmptyFigure)]

\* a file of the same name left by something else
StaleFiles == [n \in {OutFile} |-> Render(EmptyFigure)]

Init ==
    /\ py \in {2, 3}
    /\ argv \in {<<>>, <<"--dpi=300">>}
    /\ environ \in {<<>>, <<"MPLBACKEND=Agg">>}
    /\ writable \in BOOLEAN
    /\ fsys \in {NoFiles, StaleFiles}
    /\ run = 0
    /\ pc = 0
    /\ fig = EmptyFigure
    /\ log = <<>>
    /\ history = <<>>

\* an objective with the coefficient on y instead of x
ObjectiveSwapped(x, y) == FAdd(x, FMul(Lit(15, 1), y))

\* the expression 1.5*x+y
Objective(x, y) == FAdd(FMul(Lit(15, 1), x), y)

\* def obj(x, y): return str(1.5*x+y)
obj(x, y) == Str(py, Objective(x, y))

Call(line, op, args) == [line |-> line, op |-> op, args |-> args]

\* a statement makes `calls`, leaves the figure as f and passes control to
\* the statement at line `next`
Do(next, calls, f) ==
    /\ pc' = next
    /\ fig' = f
    /\ log' = log \o calls
    /\ UNCHANGED <<py, argv, environ, writable, fsys, run, history>>

\* a start that goes on with the figure and the calls of the run before
InvokeSameFigure ==
    /\ pc = 0
    /\ run < MaxRuns
    /\ run' = run + 1
    /\ pc' = 1
    /\ UNCHANGED <<py, argv, environ, writable, fsys, fig, log, history>>

\* the interpreter starts the script in a new process
Invoke ==
    /\ pc = 0
    /\ run < MaxRuns
    /\ run' = run + 1
    /\ pc' = 1
    /\ fig' = EmptyFigure
    /\ log' = <<>>
    /\ UNCHANGED <<py, argv, environ, writable, fsys, history>>

\* from pylab import *
Import1 ==
    /\ pc = 1
    /\ Do(3, <<>>, fig)

\* xlim(-0.5, 5)
Xlim3 ==
    /\ pc = 3
    /\ Do(4, <<Call(3, "xlim", <<FNeg(Lit(5, 1)), FromInt(5)>>)>>,
          xlim(fig, FNeg(Lit(5, 1)), FromInt(5)))

\* ylim(-0.5, 5)
Ylim4 ==
    /\ pc = 4
    /\ Do(6, <<Call(4, "ylim", <<FNeg(Lit(5, 1)), FromInt(5)>>)>>,
          ylim(fig, FNeg(Lit(5, 1)), FromInt(5)))

\* fill([0,2,0], [0,0,4])
Fill6 ==
    /\ pc = 6
    /\ Do(8, <<Call(6, "fill", << <<FromInt(0), FromInt(2), FromInt(0)>>,
                                  <<FromInt(0), FromInt(0), FromInt(4)>> >>)>>,
          fill(fig, <<FromInt(0), FromInt(2), FromInt(0)>>,
                    <<FromInt(0), FromInt(0), FromInt(4)>>))

\* xlabel("x")
Xlabel8 ==
    /\ pc = 8
    /\ Do(9, <<Call(8, "xlabel", <<"x">>)>>, xlabel(fig, "x"))

\* ylabel("y")
Ylabel9 ==
    /\ pc = 9
    /\ Do(15, <<Call(9, "ylabel", <<"y">>)>>, ylabel(fig, "y"))

\* the statement at `line` is plot([x], [y], fmt)
DoPlot(line, next, x, y, fmt) ==
    Do(next, <<Call(line, "plot", <<x, y, fmt>>)>>, plot(fig, <<x>>, <<y>>, fmt))

\* the statement at `line` is annotate(label + s, xy, color=c), where s is
\* what obj(x, y) returned
DoAnnotate(line, next, label, x, y, s, xy, c) ==
    Do(next,
       <<Call(line, "obj", <<x, y>>), Call(line, "annotate", <<label \o s, xy, c>>)>>,
       annotate(fig, label \o s, xy, c))

\* "(x0, y0), objective="
Label16 ==
    <<"(", "x", "0", ",", " ", "y", "0", ")", ",", " ", "o", "b", "j", "e",
      "c", "t", "i", "v", "e", "=">>

\* "(x0+d, y0), objective="
Label19 ==
    <<"(", "x", "0", "+", "d", ",", " ", "y", "0", ")", ",", " ", "o", "b",
      "j", "e", "c", "t", "i", "v", "e", "=">>

\* "(x0, y0), objective="
Label24 ==
    <<"(", "x", "0", ",", " ", "y", "0", ")", ",", " ", "o", "b", "j", "e",
      "c", "t", "i", "v", "e", "=">>

\* "(x0, y0) + d, objective="
Label29 ==
    <<"(", "x", "0", ",", " ", "y", "0", ")", " ", "+", " ", "d", ",", " ",
      "o", "b", "j", "e", "c", "t", "i", "v", "e", "=">>

\* "(x0, y0) - d, objective="
Label32 ==
    <<"(", "x", "0", ",", " ", "y", "0", ")", " ", "-", " ", "d", ",", " ",
      "o", "b", "j", "e", "c", "t", "i", "v", "e", "=">>

\* plot([1], [1], 'ko')
Plot15 ==
    /\ pc = 15
    /\ DoPlot(15, 16, FromInt(1), FromInt(1), <<"k", "o">>)

\* annotate("(x0, y0), objective=" + obj(1,1), (0.95, 0.85))
Annotate16 ==
    /\ pc = 16
    /\ DoAnnotate(16, 18, Label16, FromInt(1), FromInt(1),
                  obj(FromInt(1), FromInt(1)), <<Lit(95, 2), Lit(85, 2)>>, "k")

\* plot([1.1], [1], 'ro')
Plot18 ==
    /\ pc = 18
    /\ DoPlot(18, 19, Lit(11, 1), FromInt(1), <<"r", "o">>)

\* annotate("(x0+d, y0), objective=" + obj(1.1, 1), (0.95, 1.1), color='r')
Annotate19 ==
    /\ pc = 19
    /\ DoAnnotate(19, 23, Label19, Lit(11, 1), FromInt(1),
                  obj(Lit(11, 1), FromInt(1)), <<Lit(95, 2), Lit(11, 1)>>, "r")

\* the expression 4-3*x
OnLineSlope3(x) == FSub(FromInt(4), FMul(FromInt(3), x))

\* the expression 4-2*x of lines 23 to 32
OnLine(x) == FSub(FromInt(4), FMul(FromInt(2), x))

\* plot([0.75], [4-2*0.75], 'ko')
Plot23 ==
    /\ pc = 23
    /\ DoPlot(23, 24, Lit(75, 2), OnLine(Lit(75, 2)), <<"k", "o">>)

\* annotate("(x0, y0), objective=" + obj(0.75, 4-2*0.75), (0.80, 4-2*0.75-0.05))
Annotate24 ==
    /\ pc = 24
    /\ DoAnnotate(24, 26, Label24, Lit(75, 2), OnLine(Lit(75, 2)),
                  obj(Lit(75, 2), OnLine(Lit(75, 2))),
                  <<Lit(80, 2), FSub(OnLine(Lit(75, 2)), Lit(5, 2))>>, "k")

\* arrow( 0.75, 4-2*0.75, -0.05, 0.1, ec='g', fc='g', lw=4, head_width=0.04)
Arrow26 ==
    /\ pc = 26
    /\ Do(28,
          <<Call(26, "arrow", <<Lit(75, 2), OnLine(Lit(75, 2)), FNeg(Lit(5, 2)),
                                Lit(1, 1), "g", "g", FromInt(4), Lit(4, 2)>>)>>,
          arrow(fig, Lit(75, 2), OnLine(Lit(75, 2)), FNeg(Lit(5, 2)), Lit(1, 1),
                "g", "g", FromInt(4), Lit(4, 2)))

\* plot([0.65], [4-2*0.65], 'ro')
Plot28 ==
    /\ pc = 28
    /\ DoPlot(28, 29, Lit(65, 2), OnLine(Lit(65, 2)), <<"r", "o">>)

\* annotate("(x0, y0) + d, objective=" + obj(0.65, 4-2*0.65),
\*          (0.7, 4-2*0.65-0.05), color='r')
Annotate29 ==
    /\ pc = 29
    /\ DoAnnotate(29, 31, Label29, Lit(65, 2), OnLine(Lit(65, 2)),
                  obj(Lit(65, 2), OnLine(Lit(65, 2))),
                  <<Lit(7, 1), FSub(OnLine(Lit(65, 2)), Lit(5, 2))>>, "r")

\* plot([0.85], [4-2*0.85], 'yo')
Plot31 ==
    /\ pc = 31
    /\ DoPlot(31, 32, Lit(85, 2), OnLine(Lit(85, 2)), <<"y", "o">>)

\* annotate("(x0, y0) - d, objective=" + obj(0.85, 4-2*0.85),
\*          (0.9, 4-2*0.85-0.05), color='y')
Annotate32 ==
    /\ pc = 32
    /\ DoAnnotate(32, 34, Label32, Lit(85, 2), OnLine(Lit(85, 2)),
                  obj(Lit(85, 2), OnLine(Lit(85, 2))),
                  <<Lit(9, 1), FSub(OnLine(Lit(85, 2)), Lit(5, 2))>>, "y")

\* a savefig after which control goes back to the arrow statement
Savefig34ThenDraw ==
    /\ pc = 34
    /\ writable
    /\ fsys' = savefig(fsys, OutFile, fig)
    /\ log' = Append(log, Call(34, "savefig", <<OutFile>>))
    /\ pc' = IF Len(log) < 30 THEN 26 ELSE 35
    /\ UNCHANGED <<py, argv, environ, writable, run, fig, history>>

\* savefig("polygon_diagram.png") in a directory that can be written to
Savefig34 ==
    /\ pc = 34
    /\ writable
    /\ fsys' = savefig(fsys, OutFile, fig)
    /\ log' = Append(log, Call(34, "savefig", <<OutFile>>))
    /\ pc' = 35
    /\ UNCHANGED <<py, argv, environ, writable, run, fig, history>>

\* the outcome of a run, kept when its process ends
Outcome(code) == [log |-> log, fig |-> fig, files |-> fsys, code |-> code]

\* savefig raises where the file cannot be written; nothing catches it and
\* the process ends with a non-zero exit code
Savefig34Fails ==
    /\ pc = 34
    /\ ~writable
    /\ history' = Append(history, Outcome(1))
    /\ pc' = 0
    /\ UNCHANGED <<py, argv, environ, writable, fsys, run, fig, log>>

\* the end of the script: the process exits with code 0
Exit ==
    /\ pc = 35
    /\ history' = Append(history, Outcome(0))
    /\ pc' = 0
    /\ UNCHANGED <<py, argv, environ, writable, fsys, run, fig, log>>

Next ==
    \/ Invoke
    \/ Import1
    \/ Xlim3
    \/ Ylim4
    \/ Fill6
    \/ Xlabel8
    \/ Ylabel9
    \/ Plot15
    \/ Annotate16
    \/ Plot18
    \/ Annotate19
    \/ Plot23
    \/ Annotate24
    \/ Arrow26
    \/ Plot28
    \/ Annotate29
    \/ Plot31
    \/ Annotate32
    \/ Savefig34
    \/ Savefig34Fails
    \/ Exit

Spec == Init /\ [][Next]_vars

(***************************************************************************)
(* Properties of the script.  Numbers are compared as the script computes  *)
(* them, in binary64 arithmetic.                                           *)
(***************************************************************************)

IsPrefix(s, t) == (Len(s) <= Len(t)) /\ (s = SubSeq(t, 1, Len(s)))

\* t occurs in s as a run of consecutive characters
Contains(s, t) == \E k \in 0..(Len(s) - Len(t)) : SubSeq(s, k + 1, k + Len(t)) = t

\* line and name of every call of a log
Trace(l) == [i \in 1..Len(l) |-> <<l[i].line, l[i].op>>]

\* the calls of a run that reaches the end of the script
FullTrace ==
    << <<3, "xlim">>, <<4, "ylim">>, <<6, "fill">>, <<8, "xlabel">>,
       <<9, "ylabel">>,
       <<15, "plot">>, <<16, "obj">>, <<16, "annotate">>,
       <<18, "plot">>, <<19, "obj">>, <<19, "annotate">>,
       <<23, "plot">>, <<24, "obj">>, <<24, "annotate">>,
       <<26, "arrow">>,
       <<28, "plot">>, <<29, "obj">>, <<29, "annotate">>,
       <<31, "plot">>, <<32, "obj">>, <<32, "annotate">>,
       <<34, "savefig">> >>

\* the five points, in the order the script draws them
PointX == <<FromInt(1), Lit(11, 1), Lit(75, 2), Lit(65, 2), Lit(85, 2)>>

PointY == <<FromInt(1), FromInt(1), Lit(25, 1), Lit(27, 1), Lit(23, 1)>>

\* the coordinates as decimal text
PointXText == <<<<"1">>, <<"1", ".", "1">>, <<"0", ".", "7", "5">>, <<"0", ".", "6", "5">>, <<"0", ".", "8", "5">>>>

PointYText == <<<<"1">>, <<"1">>, <<"2", ".", "5">>, <<"2", ".", "7">>, <<"2", ".", "3">>>>

\* the decimal text of 1.5*x+y computed without rounding
ExactObjectiveText == <<<<"2", ".", "5">>, <<"2", ".", "6", "5">>, <<"3", ".", "6", "2", "5">>,
                        <<"3", ".", "6", "7", "5">>, <<"3", ".", "5", "7", "5">>>>

MarkerColors == <<"black", "red", "black", "red", "yellow">>

Labels == <<Label16, Label19, Label24, Label29, Label32>>

\* the lines of the obj calls for the three points on the constraint line
BoundaryObjLine == <<24, 29, 32>>

Finished(i) == history[i].code = 0

\* C1: for each of the five points the objective value in the annotation
\* text is 1.5*x+y exactly: 2.5, 2.65, 3.625, 3.675 and 3.575.
C1_ObjectiveTextExact ==
    \A i \in 1..Len(fig.texts) :
        fig.texts[i].s = (Labels[i] \o ExactObjectiveText[i])

\* C2: a run that completes makes exactly one savefig call, as its last
\* call, after the limits, the fill, the labels, the five plot/annotate
\* pairs and the arrow; the calls of every run follow one fixed sequence.
C2_SaveOnceAndLast ==
    /\ IsPrefix(Trace(log), FullTrace)
    /\ (pc = 35) => (Trace(log) = FullTrace)
    /\ \A i \in 1..Len(history) : Finished(i) => (Trace(history[i].log) = FullTrace)

C2_Witness ==
    \E i \in 1..Len(history) : Finished(i) /\ (Len(history[i].log) = 22)

\* the k-th point on the constraint line is drawn at (x, y)
BoundaryPointOk(k, x, y) ==
    /\ x = PointX[k + 2]
    /\ y = PointY[k + 2]
    /\ y = FSub(FromInt(4), FMul(FromInt(2), x))
    /\ \A i \in 1..Len(log) :
          ((log[i].op = "obj") /\ (log[i].line = BoundaryObjLine[k]))
              => (log[i].args = <<x, y>>)
    /\ (Len(fig.texts) >= (k + 2))
          => (\E i \in 1..Len(log) :
                 (log[i].op = "obj") /\ (log[i].line = BoundaryObjLine[k]))

\* C3: the markers at x = 0.75, 0.65 and 0.85 have y = 4 - 2x, which is
\* 2.5, 2.7 and 2.3, and obj is called with the very pair the marker is
\* drawn at.
C3_BoundaryPoints ==
    \A k \in 1..3 :
        (Len(fig.lines) >= (k + 2))
            => BoundaryPointOk(k, fig.lines[k + 2].xs[1], fig.lines[k + 2].ys[1])

C3_Witness ==
    /\ pc = 34
    /\ Len(fig.lines) = 5
    /\ fig.lines[4].ys = <<Lit(27, 1)>>

\* C4: exactly five markers are drawn, one per point, in black, red, black,
\* red and yellow in this order, and no other marker.
C4_FiveMarkers ==
    /\ Len(fig.lines) <= 5
    /\ \A i \in 1..Len(fig.lines) :
          /\ fig.lines[i].color = MarkerColors[i]
          /\ fig.lines[i].marker = "o"
          /\ fig.lines[i].xs = <<PointX[i]>>
          /\ fig.lines[i].ys = <<PointY[i]>>
    /\ (pc \in {32, 34, 35}) => (Len(fig.lines) = 5)
    /\ \A i \in 1..Len(history) : Finished(i) => (Len(history[i].fig.lines) = 5)

C4_Witness ==
    /\ pc = 35
    /\ Len(fig.lines) = 5
    /\ fig.lines[5].color = "yellow"

\* the annotate call that ends the log follows the plot call of its point
\* and its text is the point's label followed by str of the objective there
LastAnnotateOk(n, t) ==
    /\ log[n - 2].op = "plot"
    /\ log[n - 1].op = "obj"
    /\ log[n - 1].args = <<log[n - 2].args[1], log[n - 2].args[2]>>
    /\ log[n - 1].args = <<PointX[t], PointY[t]>>
    /\ log[n].args[1] = (Labels[t] \o Str(py, Objective(log[n - 2].args[1],
                                                        log[n - 2].args[2])))
    /\ fig.texts[t].s = log[n].args[1]

\* C5 as stated: every point has exactly one annotation, placed right
\* after its marker, and the text shows the coordinates of the point.
C5_TextShowsCoordinates ==
    /\ Len(fig.texts) <= Len(fig.lines)
    /\ Len(fig.lines) <= (Len(fig.texts) + 1)
    /\ \A i \in 1..Len(fig.texts) :
          /\ Contains(fig.texts[i].s, PointXText[i])
          /\ Contains(fig.texts[i].s, PointYText[i])

\* C5: every point has exactly one annotation, placed right after its
\* marker; the text is a symbolic label of the point ("(x0, y0)",
\* "(x0+d, y0)", "(x0, y0)", "(x0, y0) + d", "(x0, y0) - d"), then
\* ", objective=", then the string obj returned for the point.  The
\* coordinates of the point are not in it.
C5_LabelAndObjective ==
    /\ Len(fig.texts) <= Len(fig.lines)
    /\ Len(fig.lines) <= (Len(fig.texts) + 1)
    /\ \A i \in 1..Len(fig.texts) :
          /\ IsPrefix(Labels[i], fig.texts[i].s)
          /\ ~Contains(fig.texts[i].s, PointXText[i])
    /\ ((Len(log) >= 3) /\ (log[Len(log)].op = "annotate"))
          => LastAnnotateOk(Len(log), Len(fig.texts))

C5_Witness ==
    /\ py = 3
    /\ Len(fig.texts) = 5
    /\ log[Len(log)].op = "annotate"

\* C6: one arrow is drawn, from the point (0.75, 2.5) with displacement
\* (-0.05, 0.1), green edge and face, line width 4 and head width 0.04.
C6_OneArrow ==
    /\ Len(fig.arrows) <= 1
    /\ \A i \in 1..Len(fig.arrows) :
          /\ fig.arrows[i] = [x |-> Lit(75, 2), y |-> Lit(25, 1),
                              dx |-> FNeg(Lit(5, 2)), dy |-> Lit(1, 1),
                              ec |-> "green", fc |-> "green",
                              lw |-> FromInt(4), head_width |-> Lit(4, 2)]
          /\ <<fig.arrows[i].x>> = fig.lines[3].xs
          /\ <<fig.arrows[i].y>> = fig.lines[3].ys
    /\ (pc \in {28, 29, 31, 32, 34, 35}) => (Len(fig.arrows) = 1)
    /\ \A i \in 1..Len(history) : Finished(i) => (Len(history[i].fig.arrows) = 1)

C6_Witness ==
    /\ pc = 28
    /\ Len(fig.arrows) = 1

InWindow(x, y) ==
    /\ fig.xlim = <<FNeg(Lit(5, 1)), FromInt(5)>>
    /\ fig.ylim = <<FNeg(Lit(5, 1)), FromInt(5)>>
    /\ FCmp(fig.xlim[1], x) <= 0
    /\ FCmp(x, fig.xlim[2]) <= 0
    /\ FCmp(fig.ylim[1], y) <= 0
    /\ FCmp(y, fig.ylim[2]) <= 0

\* the i-th point, drawn at (x, y) with s = 2x + y, is where C9 puts it
InTriangleOk(i, x, y, s) ==
    /\ FCmp(x, FromInt(0)) >= 0
    /\ FCmp(y, FromInt(0)) >= 0
    /\ FCmp(s, FromInt(4)) <= 0
    /\ (i >= 3) => (s = FromInt(4))
    /\ (i <= 2) => /\ FCmp(s, FromInt(4)) < 0
                   /\ FCmp(x, FromInt(0)) > 0
                   /\ FCmp(y, FromInt(0)) > 0
    /\ InWindow(x, y)

Tolerance == [sign |-> 1, man |-> <<1>>, exp |-> -50]

\* the arrow (dx, dy) is parallel to y = 4 - 2x and the points 4 and 5 are
\* the point 3 plus and minus twice the arrow
StepsAlongEdge(dx, dy, x3, y3, x4, y4, x5, y5) ==
    /\ FAdd(dy, FMul(FromInt(2), dx)) = FromInt(0)
    /\ x4 = FAdd(x3, FMul(FromInt(2), dx))
    /\ y4 = FAdd(y3, FMul(FromInt(2), dy))
    /\ x5 = FSub(x3, FMul(FromInt(2), dx))
    /\ y5 = FSub(y3, FMul(FromInt(2), dy))

\* the objective values o4 > o3 > o5 with the differences up and down
Ordered(o3, o4, o5) == (FCmp(o4, o3) > 0) /\ (FCmp(o3, o5) > 0)

EqualSteps(up, down) == (up = Lit(5, 2)) /\ (down = Lit(5, 2))

NearlyEqualSteps(up, down, eu, ed) ==
    /\ up = down
    /\ up # Lit(5, 2)
    /\ FCmp(eu, Tolerance) < 0
    /\ FCmp(ed, Tolerance) < 0
    /\ FCmp(eu, FromInt(0)) > 0

ObjectiveAt(i) == Objective(fig.lines[i].xs[1], fig.lines[i].ys[1])

Drawn == (Len(fig.lines) = 5) /\ (Len(fig.arrows) = 1)

ArrowAlongEdge ==
    StepsAlongEdge(fig.arrows[1].dx, fig.arrows[1].dy,
                   fig.lines[3].xs[1], fig.lines[3].ys[1],
                   fig.lines[4].xs[1], fig.lines[4].ys[1],
                   fig.lines[5].xs[1], fig.lines[5].ys[1])

\* C10 as stated: the arrow is parallel to the line y = 4 - 2x, the red
\* and the yellow point are the black point plus and minus twice the arrow,
\* the objective is larger at the red and smaller at the yellow point, and
\* both differences are 0.05.
C10_DifferencesExact ==
    Drawn => /\ ArrowAlongEdge
             /\ Ordered(ObjectiveAt(3), ObjectiveAt(4), ObjectiveAt(5))
             /\ EqualSteps(FSub(ObjectiveAt(4), ObjectiveAt(3)),
                           FSub(ObjectiveAt(3), ObjectiveAt(5)))

\* C10: the arrow is parallel to the line y = 4 - 2x, the red and the
\* yellow point are the black point plus and minus twice the arrow, the
\* objective is larger at the red and smaller at the yellow point, and the
\* two differences are equal to each other and exceed 0.05 by less than
\* 2^-50: they are 0.05 only up to rounding.
C10_DifferencesRounded ==
    Drawn => /\ ArrowAlongEdge
             /\ Ordered(ObjectiveAt(3), ObjectiveAt(4), ObjectiveAt(5))
             /\ NearlyEqualSteps(FSub(ObjectiveAt(4), ObjectiveAt(3)),
                                 FSub(ObjectiveAt(3), ObjectiveAt(5)),
                                 FSub(FSub(ObjectiveAt(4), ObjectiveAt(3)), Lit(5, 2)),
                                 FSub(FSub(ObjectiveAt(3), ObjectiveAt(5)), Lit(5, 2)))

C10_Witness ==
    /\ Drawn
    /\ pc = 34
    /\ run = 1

====
